---------------------------- MODULE Spec2Model ----------------------------
(***************************************************************************)
(* A model of the learning companion: the smart knowledge base with its    *)
(* semantic deduplication gate (smart_knowledge_base.py) and the           *)
(* coordination manager of the three roles (coordination_manager.py).      *)
(*                                                                         *)
(* Texts are sequences of character tokens.  TLC's strings are ASCII, so   *)
(* the ideographs are written by their pinyin: "shu", "ju" and "ku" are    *)
(* ordinary ideographs, "de" is the ideograph that the stop-word list      *)
(* holds, "G" and "g" are a Latin letter in its two cases.  A keyword (an  *)
(* n-gram) is the sequence of its characters.                              *)
(***************************************************************************)
EXTENDS Integers, Sequences, FiniteSets, TLC

VARIABLES
    knowledge_base,   \* SmartKnowledgeBase.knowledge_base, the in-memory document
    kb_file,          \* the file kb_file on disk: None while it does not exist,
                      \* else <<the document json.dump wrote>>
    ret,              \* the last add_question call: its arguments and what it returned
    repeat_of,        \* the status the previous call returned when it had the same
                      \* topic and question text as the last one, else "NONE"
    cm,               \* CoordinationManager.state, the in-memory document
    cm_file,          \* the file STATE_FILE on disk, None while it does not exist
    now,              \* the wall clock, in ticks of TickMinutes minutes
    cm_ret,           \* the last CoordinationManager call and what it returned
    review_running,   \* the review producer started a review and has not ended it
    teaching_running, \* the teaching producer started a run and has not ended it
    last_pause,       \* the last pause_auto_learning / pause_auto_review call: whose
                      \* pause it was and whether it had a duration
    records,          \* LearningRecords.records, the in-memory document
    records_file,     \* the file records_file on disk, None while it does not exist
    lr_now,           \* the wall clock the learning records read (datetime.now())
    lr_ret,           \* the last LearningRecords call: its arguments and its result
    kb_other,         \* a second SmartKnowledgeBase on the same kb_file: None until
                      \* it is constructed, then <<its in-memory document>>
    records_other,    \* a second LearningRecords on the same records_file, likewise
    shared_log,       \* what the two instances' writes returned: the questions for
                      \* which add_question returned ADDED, the events passed to
                      \* add_qa_record, and the last add_question call
    kw_call,          \* an extract_keywords call: its text and, once made, its result
    sim_call,         \* a calculate_similarity call: its sets and its result
    load_call         \* a construction on a stored file: the class, the file and,
                      \* once _load_kb / _load_records / _load_state ran, its outcome

kb_vars == <<knowledge_base, kb_file, ret, repeat_of>>
cm_vars == <<cm, cm_file, now, cm_ret, review_running, teaching_running, last_pause>>
lr_vars == <<records, records_file, lr_now, lr_ret>>
two_vars == <<kb_other, records_other, shared_log>>
fn_vars == <<kw_call, sim_call>>
vars == <<knowledge_base, kb_file, ret, repeat_of,
          cm, cm_file, now, cm_ret, review_running, teaching_running, last_pause,
          records, records_file, lr_now, lr_ret,
          kb_other, records_other, shared_log, kw_call, sim_call, load_call>>

\* Python's None is the empty tuple, and a value x that may be None is <<x>>.
None == <<>>
Some(x) == <<x>>

(***************************************************************************)
(* Bounds of the model.                                                    *)
(***************************************************************************)
MaxRecords == 3

\* The clock advances by TickMinutes minutes at a time, up to MaxTime minutes.
TickMinutes == 30
MaxTime == 150

\* The number of events a LearningRecords instance logs under SpecLR and SpecTwo.
MaxSessions == 2

\* The number of events logged after the construction under SpecStats.
MaxStatEvents == 3

\* How far below 0 and above 10 the scores of SpecMastery reach.
ScoreMargin == 2

\* The length of the texts extract_keywords is applied to under SpecFn.
MaxTextLen == 3

\* The question texts the calls draw from.  Over the characters shu, ju (ideographs),
\* de (a stop-word ideograph) and G, g (Latin):
\*   shu ju       keywords {shu, ju, shu-ju}
\*   shu ju de    5 keywords, 3 of them shared with "shu ju": Jaccard exactly 3/5
\*   shu ju G     the keywords of "shu ju", another digest
\*   g shu ju     the keywords of "shu ju", another digest
\*   ju shu       shares 2 of 4 keywords with "shu ju": Jaccard 1/2
\*   de G         no keyword at all
Questions ==
    { <<"shu", "ju">>, <<"shu", "ju", "de">>, <<"shu", "ju", "G">>,
      <<"g", "shu", "ju">>, <<"ju", "shu">>, <<"de", "G">> }

\* The topic names the calls draw from.
TopicNames == { <<"S", "Q", "L">>, <<"G", "I", "L">> }

(***************************************************************************)
(* Characters.                                                             *)
(***************************************************************************)
Alphabet == <<"shu", "ju", "ku", "de", "shen", "me", "G", "g", "S", "Q", "L", "I">>

\* '\u4e00' <= c <= '\u9fff' (line 63)
IsIdeograph(c) == c \in {"shu", "ju", "ku", "de", "shen", "me"}

\* str.lower() on one character
LowerChar(c) ==
    CASE c = "G" -> "g"
      [] c = "S" -> "s"
      [] c = "Q" -> "q"
      [] c = "L" -> "l"
      [] c = "I" -> "i"
      [] OTHER -> c

lower(text) == [i \in 1..Len(text) |-> LowerChar(text[i])]

\* The stop words of extract_keywords that can be written over the alphabet:
\* a one-character one and a two-character one.
stopwords == { <<"de">>, <<"shen", "me">> }

\* The code point of a character: its place in the alphabet.
CharCodes ==
    [c \in {Alphabet[i] : i \in 1..Len(Alphabet)} |->
        CHOOSE i \in 1..Len(Alphabet) : Alphabet[i] = c]

CharCode(c) == CharCodes[c]

RECURSIVE TextCode(_)
TextCode(text) ==
    IF text = <<>> THEN 0
    ELSE TextCode(SubSeq(text, 1, Len(text) - 1)) * (Len(Alphabet) + 1)
         + CharCode(text[Len(text)])

\* hashlib.md5(s.encode()).hexdigest()[:n]: a function of the exact characters of
\* the text (case and non-ideographs included).  Over the texts of the model md5
\* has no collision, so the digest is the text's code, tagged with its length n.
\* TextCode of every text of the model, computed once.
TextCodes == [text \in Questions \cup TopicNames |-> TextCode(text)]

md5_hexdigest_prefix(text, n) == <<n, TextCodes[text]>>

TopicId(topic) == md5_hexdigest_prefix(topic, 8)
QuestionHash(question_zh) == md5_hexdigest_prefix(question_zh, 16)

(***************************************************************************)
(* extract_keywords                                                        *)
(***************************************************************************)
RECURSIVE SelectIdeographs(_)
SelectIdeographs(text) ==
    IF text = <<>> THEN <<>>
    ELSE LET rest == SelectIdeographs(SubSeq(text, 1, Len(text) - 1))
             c == text[Len(text)]
         IN IF IsIdeograph(c) THEN Append(rest, c) ELSE rest

extract_keywords(text) ==
    LET chars == SelectIdeographs(lower(text))
        n == Len(chars)
    IN    { <<chars[i]>> : i \in { j \in 1..n : <<chars[j]>> \notin stopwords } }
     \cup { <<chars[i], chars[i + 1]>> : i \in 1..(n - 1) }
     \cup { <<chars[i], chars[i + 1], chars[i + 2]>> : i \in 1..(n - 2) }

\* extract_keywords of every question text of the model, computed once.
KeywordsOf == [text \in Questions |-> extract_keywords(text)]

(***************************************************************************)
(* calculate_similarity: a float in the code, the exact fraction num/den   *)
(* here.  The quotients of two set sizes are far enough apart for the      *)
(* float comparisons of the code to agree with the comparisons of the      *)
(* fractions.                                                              *)
(***************************************************************************)
\* A mutant of calculate_similarity: the overlap is divided by the size of the
\* first set, not of the union.
calculate_similarity_of_first(keywords1, keywords2) ==
    IF keywords1 = {} \/ keywords2 = {}
    THEN [num |-> 0, den |-> 1]
    ELSE [num |-> Cardinality(keywords1 \cap keywords2),
          den |-> Cardinality(keywords1)]

calculate_similarity(keywords1, keywords2) ==
    IF keywords1 = {} \/ keywords2 = {}
    THEN [num |-> 0, den |-> 1]
    ELSE [num |-> Cardinality(keywords1 \cap keywords2),
          den |-> Cardinality(keywords1 \cup keywords2)]

\* a >= b on floats
FloatGE(a, b) == a.num * b.den >= b.num * a.den

\* threshold=0.6 at the call in add_question
Threshold == [num |-> 3, den |-> 5]


\* A mutant of meets_threshold: the boundary excluded (similarity > threshold).
meets_threshold_strict(similarity, threshold) ==
    similarity.num * threshold.den > threshold.num * similarity.den

\* similarity >= threshold (line 127)
meets_threshold(similarity, threshold) == FloatGE(similarity, threshold)

\* list.sort(key=similarity, reverse=True): Python's sort is stable, also with
\* reverse=True, so equal keys keep their order.  InsertDescending puts x, the
\* latest of the elements seen, behind every element that is not smaller.
RECURSIVE InsertDescending(_, _)
InsertDescending(sorted, x) ==
    IF sorted = <<>> THEN <<x>>
    ELSE IF FloatGE(sorted[1].similarity, x.similarity)
         THEN <<sorted[1]>> \o InsertDescending(Tail(sorted), x)
         ELSE <<x>> \o sorted

\* A mutant of sort_reverse: an ascending sort read backwards, which turns the
\* order of equal keys around.
RECURSIVE InsertBeforeEqual(_, _)
InsertBeforeEqual(sorted, x) ==
    IF sorted = <<>> THEN <<x>>
    ELSE IF sorted[1].similarity.num * x.similarity.den
               > x.similarity.num * sorted[1].similarity.den
         THEN <<sorted[1]>> \o InsertBeforeEqual(Tail(sorted), x)
         ELSE <<x>> \o sorted

RECURSIVE sort_reverse_unstable(_)
sort_reverse_unstable(list) ==
    IF list = <<>> THEN <<>>
    ELSE InsertBeforeEqual(sort_reverse_unstable(SubSeq(list, 1, Len(list) - 1)),
                           list[Len(list)])

RECURSIVE sort_reverse(_)
sort_reverse(list) ==
    IF list = <<>> THEN <<>>
    ELSE InsertDescending(sort_reverse(SubSeq(list, 1, Len(list) - 1)), list[Len(list)])

\* The loop of find_similar_questions (lines 121-132) over the topic's questions,
\* in their order.
RECURSIVE collect_similar(_, _, _)
collect_similar(questions, new_keywords, threshold) ==
    IF questions = <<>> THEN <<>>
    ELSE LET rest == collect_similar(SubSeq(questions, 1, Len(questions) - 1),
                                     new_keywords, threshold)
             qa == questions[Len(questions)]
             existing_question == qa.question_zh
             existing_keywords == KeywordsOf[existing_question]
             similarity == calculate_similarity(new_keywords, existing_keywords)
         IN IF meets_threshold(similarity, threshold)
            THEN Append(rest, [question |-> existing_question,
                               similarity |-> similarity,
                               hash |-> qa.question_hash])
            ELSE rest

\* A mutant of find_similar_questions: the questions of every topic are searched.
find_similar_questions_any_topic(kb, topic, new_question, threshold) ==
    LET found(topic_id) == collect_similar(kb.topics[topic_id].questions,
                                           KeywordsOf[new_question], threshold)
        hits == { topic_id \in DOMAIN kb.topics : found(topic_id) # <<>> }
    IN IF hits = {} THEN <<>>
       ELSE sort_reverse(found(CHOOSE topic_id \in hits : TRUE))

find_similar_questions(kb, topic, new_question, threshold) ==
    LET topic_id == TopicId(topic)
    IN IF topic_id \notin DOMAIN kb.topics THEN <<>>
       ELSE sort_reverse(collect_similar(kb.topics[topic_id].questions,
                                         KeywordsOf[new_question], threshold))

(***************************************************************************)
(* add_question                                                            *)
(***************************************************************************)
\* The document _load_kb builds when the file is missing.  created_at, a
\* timestamp nothing reads, is left out, as are the timestamps and the payload
\* (question_en, the answers, difficulty, tags) of a question record, which
\* add_question copies and never reads.
EmptyKnowledgeBase == [topics |-> <<>>]

\* _save_kb: the whole document replaces the file's content.  json.dump writes
\* the dict of dicts, lists, strings, integers and null that the document is, and
\* json.load reads the same values back.
save_kb(kb) == Some(kb)

\* _load_kb: the document of the file, or a new empty one when the file is missing.
load_kb(file) == IF file = None THEN EmptyKnowledgeBase ELSE file[1]

\* A mutant of init_topic: the topic entry is written without the membership test.
init_topic_always(kb, topic) ==
    [kb EXCEPT !.topics =
        (TopicId(topic) :> [topic_name |-> topic, questions |-> <<>>]) @@ @]

\* lines 173-178
init_topic(kb, topic) ==
    IF TopicId(topic) \notin DOMAIN kb.topics
    THEN [kb EXCEPT !.topics =
            @ @@ (TopicId(topic) :> [topic_name |-> topic, questions |-> <<>>])]
    ELSE kb

\* A mutant of exact_duplicate: the loop returns after the first record.
exact_duplicate_first_only(questions, question_hash) ==
    questions # <<>> /\ questions[1].question_hash = question_hash

\* lines 181-183
exact_duplicate(questions, question_hash) ==
    \E i \in 1..Len(questions) : questions[i].question_hash = question_hash

\* A mutant of checks_similar: force is ignored.
checks_similar_always(force) == TRUE

\* line 186: if not force
checks_similar(force) == ~force

\* A mutant of qa_entry: the record keeps the first 8 digits of the digest, which
\* the 16 digits of a later call never equal.
qa_entry_short_hash(question_hash, question_zh) ==
    [question_hash |-> <<8, question_hash[2]>>,
     question_zh |-> question_zh,
     review_count |-> 0,
     last_reviewed |-> None]

\* lines 192-203
qa_entry(question_hash, question_zh) ==
    [question_hash |-> question_hash,
     question_zh |-> question_zh,
     review_count |-> 0,
     last_reviewed |-> None]

\* The call's result: the document in memory, the file, and the returned pair.
add_question(kb, file, topic, question_zh, force) ==
    LET topic_id == TopicId(topic)
        question_hash == QuestionHash(question_zh)
        kb1 == init_topic(kb, topic)
        similar == IF checks_similar(force)
                   THEN find_similar_questions(kb1, topic, question_zh, Threshold)
                   ELSE <<>>
        kb2 == [kb1 EXCEPT !.topics[topic_id].questions =
                   Append(@, qa_entry(question_hash, question_zh))]
    IN IF exact_duplicate(kb1.topics[topic_id].questions, question_hash)
       THEN [kb |-> kb1, file |-> file, status |-> "EXACT_DUPLICATE", similar |-> None]
       ELSE IF similar # <<>>
       THEN [kb |-> kb1, file |-> file, status |-> "SIMILAR_FOUND", similar |-> similar]
       ELSE [kb |-> kb2, file |-> save_kb(kb2), status |-> "ADDED", similar |-> None]

\* The number of question records of the document.
NumRecords(kb) ==
    Cardinality(UNION { { <<t, i>> : i \in 1..Len(kb.topics[t].questions) } :
                        t \in DOMAIN kb.topics })

NoCall == [topic |-> <<>>, question_zh |-> <<>>, force |-> FALSE,
           status |-> "NONE", similar |-> None]

AddQuestion(topic, question_zh, force) ==
    \E r \in { add_question(knowledge_base, kb_file, topic, question_zh, force) } :
       /\ r.status = "ADDED" => NumRecords(knowledge_base) < MaxRecords
       /\ knowledge_base' = r.kb
       /\ kb_file' = r.file
       /\ ret' = [topic |-> topic, question_zh |-> question_zh, force |-> force,
                  status |-> r.status, similar |-> r.similar]
       /\ repeat_of' = IF ret.topic = topic /\ ret.question_zh = question_zh
                       THEN ret.status ELSE "NONE"
       /\ UNCHANGED <<cm_vars, lr_vars, two_vars, fn_vars, load_call>>

InitKB ==
    /\ knowledge_base = EmptyKnowledgeBase
    /\ kb_file = None
    /\ ret = NoCall
    /\ repeat_of = "NONE"

NextKB ==
    \E topic \in TopicNames, question_zh \in Questions, force \in BOOLEAN :
        AddQuestion(topic, question_zh, force)


(***************************************************************************)
(* CoordinationManager.  Times are minutes on the wall clock; a timestamp  *)
(* (datetime.now().isoformat(), read back with fromisoformat) is the       *)
(* clock's value.  The metadata timestamps (last_main_conversation,        *)
(* last_anki_review, last_auto_teaching) are written and never read, and   *)
(* are left out.                                                           *)
(***************************************************************************)
STATE_IDLE == "idle"
STATE_ACTIVE_LEARNING == "active_learning"
STATE_REVIEWING == "reviewing"
STATE_AUTO_TEACHING == "auto_teaching"

\* timeout_minutes at the calls check_auto_timeout(30)
TimeoutMinutes == 30

\* The arguments the calls draw from.
UserTopics == { <<"SQL">> }
TeachingTopics == { "GIL" }
DurationHours == { None, Some(1) }

\* _save_state: the whole state replaces the file.
save_state(state) == Some(state)

default_state ==
    [current_state |-> STATE_IDLE,
     learning_in_progress |-> FALSE,
     active_topics |-> <<>>,
     last_activity |-> None,
     suppress_until |-> None,
     pause_auto_learning |-> FALSE,
     pause_auto_review |-> FALSE]

\* _load_state: the default state while the file does not exist
load_state(file) == IF file = None THEN default_state ELSE file[1]

start_active_learning(state, t, topics) ==
    [state EXCEPT !.current_state = STATE_ACTIVE_LEARNING,
                  !.learning_in_progress = TRUE,
                  !.active_topics = topics,
                  !.last_activity = Some(t)]

end_active_learning(state, t) ==
    [state EXCEPT !.current_state = STATE_IDLE,
                  !.learning_in_progress = FALSE,
                  !.active_topics = <<>>,
                  !.last_activity = Some(t)]

update_activity(state, t) == [state EXCEPT !.last_activity = Some(t)]

\* The state the call leaves and the value it returns.
check_auto_timeout(state, t, timeout_minutes) ==
    IF state.last_activity = None
    THEN [state |-> state, timed_out |-> TRUE]
    ELSE IF (t - state.last_activity[1]) * 60 > timeout_minutes * 60
    THEN [state |-> IF state.learning_in_progress
                    THEN end_active_learning(state, t) ELSE state,
          timed_out |-> TRUE]
    ELSE [state |-> state, timed_out |-> FALSE]

\* A mutant of check_auto_timeout_saves: the automatic end is not written.
check_auto_timeout_saves_never(state, t, timeout_minutes) == FALSE

\* Whether the call writes the file: only through end_active_learning.
check_auto_timeout_saves(state, t, timeout_minutes) ==
    /\ state.last_activity # None
    /\ (t - state.last_activity[1]) * 60 > timeout_minutes * 60
    /\ state.learning_in_progress

\* if self.state.get("suppress_until") and datetime.now() < suppress_until
suppressed(state, t) == state.suppress_until # None /\ t < state.suppress_until[1]

can_anki_review(state, t) ==
    IF state.pause_auto_review
    THEN [state |-> state, allowed |-> FALSE, reason |-> "paused"]
    ELSE IF suppressed(state, t)
    THEN [state |-> state, allowed |-> FALSE, reason |-> "suppressed"]
    ELSE IF state.current_state = STATE_ACTIVE_LEARNING
    THEN [state |-> state, allowed |-> FALSE, reason |-> "active_learning"]
    ELSE IF state.current_state = STATE_AUTO_TEACHING
    THEN [state |-> state, allowed |-> FALSE, reason |-> "auto_teaching"]
    ELSE [state |-> check_auto_timeout(state, t, TimeoutMinutes).state,
          allowed |-> TRUE, reason |-> "allowed"]

\* The check writes the file only when it reaches check_auto_timeout(30).
can_anki_review_saves(state, t) ==
    /\ can_anki_review(state, t).allowed
    /\ check_auto_timeout_saves(state, t, TimeoutMinutes)

start_anki_review(state) == [state EXCEPT !.current_state = STATE_REVIEWING]

end_anki_review(state) == [state EXCEPT !.current_state = STATE_IDLE]

can_auto_teach(state, t) ==
    IF state.pause_auto_learning
    THEN [state |-> state, allowed |-> FALSE, reason |-> "paused"]
    ELSE IF suppressed(state, t)
    THEN [state |-> state, allowed |-> FALSE, reason |-> "suppressed"]
    ELSE IF state.current_state = STATE_ACTIVE_LEARNING
    THEN [state |-> state, allowed |-> FALSE, reason |-> "active_learning"]
    ELSE IF state.current_state = STATE_REVIEWING
    THEN [state |-> state, allowed |-> FALSE, reason |-> "reviewing"]
    ELSE [state |-> check_auto_timeout(state, t, TimeoutMinutes).state,
          allowed |-> TRUE, reason |-> "allowed"]

can_auto_teach_saves(state, t) ==
    /\ can_auto_teach(state, t).allowed
    /\ check_auto_timeout_saves(state, t, TimeoutMinutes)

start_auto_teaching(state, topic) ==
    [state EXCEPT !.current_state = STATE_AUTO_TEACHING,
                  !.active_topics = <<topic>>]

end_auto_teaching(state) ==
    [state EXCEPT !.current_state = STATE_IDLE, !.active_topics = <<>>]

\* if duration_hours: a duration of None (or 0) records no suppress_until
pause_auto_learning(state, t, duration_hours) ==
    [state EXCEPT !.pause_auto_learning = TRUE,
                  !.suppress_until = IF duration_hours # None /\ duration_hours # Some(0)
                                     THEN Some(t + duration_hours[1] * 60) ELSE @]

resume_auto_learning(state) ==
    [state EXCEPT !.pause_auto_learning = FALSE, !.suppress_until = None]

pause_auto_review(state, t, duration_hours) ==
    [state EXCEPT !.pause_auto_review = TRUE,
                  !.suppress_until = IF duration_hours # None /\ duration_hours # Some(0)
                                     THEN Some(t + duration_hours[1] * 60) ELSE @]

resume_auto_review(state) ==
    [state EXCEPT !.pause_auto_review = FALSE, !.suppress_until = None]

(***************************************************************************)
(* The callers of one shared CoordinationManager: the user (the main       *)
(* conversation), the review producer and the teaching producer.  Every    *)
(* method runs to its end before the next call starts.  A producer starts  *)
(* only when the last call on the manager was its own check and the check  *)
(* allowed it, and ends only what it started.                              *)
(***************************************************************************)
Called(op) == [op |-> op, allowed |-> FALSE, reason |-> "None"]

StartActiveLearning(topics) ==
    /\ cm' = start_active_learning(cm, now, topics)
    /\ cm_ret' = Called("start_active_learning")
    /\ cm_file' = save_state(cm')
    /\ UNCHANGED <<now, review_running, teaching_running, last_pause, kb_vars,
                   lr_vars, two_vars, fn_vars, load_call>>

EndActiveLearning ==
    /\ cm' = end_active_learning(cm, now)
    /\ cm_ret' = Called("end_active_learning")
    /\ cm_file' = save_state(cm')
    /\ UNCHANGED <<now, review_running, teaching_running, last_pause, kb_vars,
                   lr_vars, two_vars, fn_vars, load_call>>

UpdateActivity ==
    /\ cm' = update_activity(cm, now)
    /\ cm_ret' = Called("update_activity")
    /\ cm_file' = save_state(cm')
    /\ UNCHANGED <<now, review_running, teaching_running, last_pause, kb_vars,
                   lr_vars, two_vars, fn_vars, load_call>>

CheckAutoTimeout ==
    /\ cm' = check_auto_timeout(cm, now, TimeoutMinutes).state
    /\ cm_ret' = [op |-> "check_auto_timeout",
                  allowed |-> check_auto_timeout(cm, now, TimeoutMinutes).timed_out,
                  reason |-> "None"]
    /\ cm_file' = IF check_auto_timeout_saves(cm, now, TimeoutMinutes)
                  THEN save_state(cm') ELSE cm_file
    /\ UNCHANGED <<now, review_running, teaching_running, last_pause, kb_vars,
                   lr_vars, two_vars, fn_vars, load_call>>

CanAnkiReview ==
    /\ cm' = can_anki_review(cm, now).state
    /\ cm_ret' = [op |-> "can_anki_review",
                  allowed |-> can_anki_review(cm, now).allowed,
                  reason |-> can_anki_review(cm, now).reason]
    /\ cm_file' = IF can_anki_review_saves(cm, now) THEN save_state(cm') ELSE cm_file
    /\ UNCHANGED <<now, review_running, teaching_running, last_pause, kb_vars,
                   lr_vars, two_vars, fn_vars, load_call>>

StartAnkiReview ==
    /\ cm_ret.op = "can_anki_review" /\ cm_ret.allowed = TRUE
    /\ ~review_running
    /\ cm' = start_anki_review(cm)
    /\ cm_ret' = Called("start_anki_review")
    /\ cm_file' = save_state(cm')
    /\ review_running' = TRUE
    /\ UNCHANGED <<now, teaching_running, last_pause, kb_vars,
                   lr_vars, two_vars, fn_vars, load_call>>

EndAnkiReview ==
    /\ review_running
    /\ cm' = end_anki_review(cm)
    /\ cm_ret' = Called("end_anki_review")
    /\ cm_file' = save_state(cm')
    /\ review_running' = FALSE
    /\ UNCHANGED <<now, teaching_running, last_pause, kb_vars,
                   lr_vars, two_vars, fn_vars, load_call>>

CanAutoTeach ==
    /\ cm' = can_auto_teach(cm, now).state
    /\ cm_ret' = [op |-> "can_auto_teach",
                  allowed |-> can_auto_teach(cm, now).allowed,
                  reason |-> can_auto_teach(cm, now).reason]
    /\ cm_file' = IF can_auto_teach_saves(cm, now) THEN save_state(cm') ELSE cm_file
    /\ UNCHANGED <<now, review_running, teaching_running, last_pause, kb_vars,
                   lr_vars, two_vars, fn_vars, load_call>>

StartAutoTeaching(topic) ==
    /\ cm_ret.op = "can_auto_teach" /\ cm_ret.allowed = TRUE
    /\ ~teaching_running
    /\ cm' = start_auto_teaching(cm, topic)
    /\ cm_ret' = Called("start_auto_teaching")
    /\ cm_file' = save_state(cm')
    /\ teaching_running' = TRUE
    /\ UNCHANGED <<now, review_running, last_pause, kb_vars,
                   lr_vars, two_vars, fn_vars, load_call>>

EndAutoTeaching ==
    /\ teaching_running
    /\ cm' = end_auto_teaching(cm)
    /\ cm_ret' = Called("end_auto_teaching")
    /\ cm_file' = save_state(cm')
    /\ teaching_running' = FALSE
    /\ UNCHANGED <<now, review_running, last_pause, kb_vars,
                   lr_vars, two_vars, fn_vars, load_call>>

PauseAutoLearning(duration_hours) ==
    /\ cm' = pause_auto_learning(cm, now, duration_hours)
    /\ cm_ret' = Called("pause_auto_learning")
    /\ cm_file' = save_state(cm')
    /\ last_pause' = [who |-> "learning", timed |-> duration_hours # None /\ duration_hours # Some(0)]
    /\ UNCHANGED <<now, review_running, teaching_running, kb_vars,
                   lr_vars, two_vars, fn_vars, load_call>>

ResumeAutoLearning ==
    /\ cm' = resume_auto_learning(cm)
    /\ cm_ret' = Called("resume_auto_learning")
    /\ cm_file' = save_state(cm')
    /\ UNCHANGED <<now, review_running, teaching_running, last_pause, kb_vars,
                   lr_vars, two_vars, fn_vars, load_call>>

PauseAutoReview(duration_hours) ==
    /\ cm' = pause_auto_review(cm, now, duration_hours)
    /\ cm_ret' = Called("pause_auto_review")
    /\ cm_file' = save_state(cm')
    /\ last_pause' = [who |-> "review", timed |-> duration_hours # None /\ duration_hours # Some(0)]
    /\ UNCHANGED <<now, review_running, teaching_running, kb_vars,
                   lr_vars, two_vars, fn_vars, load_call>>

ResumeAutoReview ==
    /\ cm' = resume_auto_review(cm)
    /\ cm_ret' = Called("resume_auto_review")
    /\ cm_file' = save_state(cm')
    /\ UNCHANGED <<now, review_running, teaching_running, last_pause, kb_vars,
                   lr_vars, two_vars, fn_vars, load_call>>

\* Time passes.
Tick ==
    /\ now + TickMinutes <= MaxTime
    /\ now' = now + TickMinutes
    /\ UNCHANGED <<cm, cm_file, cm_ret, review_running, teaching_running, last_pause, kb_vars,
                   lr_vars, two_vars, fn_vars, load_call>>

InitCM ==
    /\ cm = default_state
    /\ cm_file = None
    /\ now = 0
    /\ cm_ret = Called("init")
    /\ review_running = FALSE
    /\ teaching_running = FALSE
    /\ last_pause = [who |-> "none", timed |-> FALSE]

NextCM ==
    \/ \E topics \in UserTopics : StartActiveLearning(topics)
    \/ EndActiveLearning
    \/ UpdateActivity
    \/ CheckAutoTimeout
    \/ CanAnkiReview
    \/ StartAnkiReview
    \/ EndAnkiReview
    \/ CanAutoTeach
    \/ \E topic \in TeachingTopics : StartAutoTeaching(topic)
    \/ EndAutoTeaching
    \/ \E duration_hours \in DurationHours : PauseAutoLearning(duration_hours)
    \/ ResumeAutoLearning
    \/ \E duration_hours \in DurationHours : PauseAutoReview(duration_hours)
    \/ ResumeAutoReview
    \/ Tick

(***************************************************************************)
(* LearningRecords (learning_records.py).  A datetime is a calendar day    *)
(* and a part of that day (0 the morning, 1 the afternoon); its isoformat  *)
(* text is the tuple of its fields.  The payload of an event that the code *)
(* copies and never reads (user_answer, the correct answers, notes) and    *)
(* student_name and created_at of the document are left out.  A float with *)
(* one decimal (average_score) is its number of tenths.                    *)
(***************************************************************************)
Datetime(day, half) == [day |-> day, half |-> half]

\* datetime.isoformat() and datetime.fromisoformat()
isoformat(dt) == <<dt.day, dt.half>>
fromisoformat(text) == [day |-> text[1], half |-> text[2]]

\* dt + timedelta(days=interval)
plus_days(dt, interval) == [dt EXCEPT !.day = @ + interval]

\* dt.date()
date(dt) == dt.day

\* dt1 < dt2
Earlier(dt1, dt2) ==
    dt1.day < dt2.day \/ (dt1.day = dt2.day /\ dt1.half < dt2.half)

\* The document _load_records builds when the file is missing (lines 32-43).
EmptyRecords ==
    [learning_sessions |-> <<>>,
     review_schedule |-> <<>>,
     statistics |-> [total_questions |-> 0,
                     correct_answers |-> 0,
                     average_score |-> 0,
                     weak_topics |-> <<>>]]

\* _load_records and _save_records: json.load of the file, json.dump of the whole
\* document (dicts, lists, strings, integers, booleans and floats of one decimal,
\* which json writes and reads back as they are).
load_records(file) == IF file = None THEN EmptyRecords ELSE file[1]
save_records(document) == Some(document)

\* A mutant of calculate_mastery: the tier of a score of 9 is "good".
calculate_mastery_late(score) ==
    IF score > 9 THEN "excellent"
    ELSE IF score >= 7 THEN "good"
    ELSE IF score >= 5 THEN "fair"
    ELSE "poor"

\* _calculate_mastery
calculate_mastery(score) ==
    IF score >= 9 THEN "excellent"
    ELSE IF score >= 7 THEN "good"
    ELSE IF score >= 5 THEN "fair"
    ELSE "poor"

\* lines 123-130
intervals_of(mastery) ==
    IF mastery = "excellent" THEN <<1, 3, 7, 15, 30>>
    ELSE IF mastery = "good" THEN <<1, 2, 5, 10, 20>>
    ELSE IF mastery = "fair" THEN <<1, 2, 4, 7, 14>>
    ELSE <<1, 1, 3, 5, 10>>

\* The obligation the loop of _schedule_reviews appends for one interval.
review_entry(qa_record, interval) ==
    [review_date |->
         isoformat(plus_days(fromisoformat(qa_record.timestamp), interval)),
     topic |-> qa_record.topic,
     question_zh |-> qa_record.question_zh,
     question_en |-> qa_record.question_en,
     mastery_level |-> qa_record.mastery_level,
     interval_days |-> interval,
     completed |-> FALSE]

\* A mutant of schedule_reviews: an interval already scheduled for the event is
\* skipped, so the tier "poor" (1, 1, 3, 5, 10) gets four obligations.
schedule_reviews_distinct(document, qa_record) ==
    LET intervals == intervals_of(qa_record.mastery_level)
        kept == SelectSeq([i \in 1..Len(intervals) |-> <<i, intervals[i]>>],
                          LAMBDA p : \A j \in 1..(p[1] - 1) : intervals[j] # p[2])
    IN [document EXCEPT !.review_schedule =
           @ \o [i \in 1..Len(kept) |-> review_entry(qa_record, kept[i][2])]]

\* _schedule_reviews
schedule_reviews(document, qa_record) ==
    LET intervals == intervals_of(qa_record.mastery_level)
    IN [document EXCEPT !.review_schedule =
           @ \o [i \in 1..Len(intervals) |-> review_entry(qa_record, intervals[i])]]

\* sum(s["score"] for s in sessions)
RECURSIVE sum_scores(_)
sum_scores(sessions) ==
    IF sessions = <<>> THEN 0
    ELSE sum_scores(SubSeq(sessions, 1, Len(sessions) - 1))
         + sessions[Len(sessions)].score

\* A mutant of count_correct: a score of 7 does not count.
count_correct_above(sessions) ==
    Len(SelectSeq(sessions, LAMBDA s : s.score > 7))

\* sum(1 for s in sessions if s["score"] >= 7)
count_correct(sessions) ==
    Len(SelectSeq(sessions, LAMBDA s : s.score >= 7))

\* round(total / count, 1), in tenths.  Python rounds the float to the nearest
\* tenth and a tie to the even tenth.  A quotient of two integers that is a tie
\* with count < 20 ends in .25 or .75, which a float holds exactly, and any other
\* quotient is further from a tie than the float's error.
round_1(total, count) ==
    LET floor == (10 * total) \div count
        rest == (10 * total) % count
    IN IF 2 * rest < count THEN floor
       ELSE IF 2 * rest > count THEN floor + 1
       ELSE IF floor % 2 = 0 THEN floor ELSE floor + 1

\* The keys of topic_scores in the order of the dict: the order in which the
\* topics first appear in the log (lines 157-162).
RECURSIVE topic_order(_)
topic_order(sessions) ==
    IF sessions = <<>> THEN <<>>
    ELSE LET rest == topic_order(SubSeq(sessions, 1, Len(sessions) - 1))
             topic == sessions[Len(sessions)].topic
         IN IF \E i \in 1..Len(rest) : rest[i] = topic
            THEN rest ELSE Append(rest, topic)

\* topic_scores[topic]
scores_of(sessions, topic) == SelectSeq(sessions, LAMBDA s : s.topic = topic)

\* avg < 7 on the float sum(scores) / len(scores)
is_weak(scores) == sum_scores(scores) < 7 * Len(scores)

\* lines 164-172: the entries of the weak topics, in the order of the dict
collect_weak(sessions) ==
    LET topics == topic_order(sessions)
        weak == SelectSeq(topics, LAMBDA t : is_weak(scores_of(sessions, t)))
    IN [i \in 1..Len(weak) |->
           LET scores == scores_of(sessions, weak[i])
           IN [topic |-> weak[i],
               average_score |-> round_1(sum_scores(scores), Len(scores)),
               attempts |-> Len(scores)]]

\* weak_topics.sort(key=lambda x: x["average_score"]): a stable ascending sort on
\* the rounded average, so x goes behind every entry whose key is not greater.
RECURSIVE InsertAscending(_, _)
InsertAscending(sorted, x) ==
    IF sorted = <<>> THEN <<x>>
    ELSE IF sorted[1].average_score <= x.average_score
         THEN <<sorted[1]>> \o InsertAscending(Tail(sorted), x)
         ELSE <<x>> \o sorted

RECURSIVE sort_by_average(_)
sort_by_average(list) ==
    IF list = <<>> THEN <<>>
    ELSE InsertAscending(sort_by_average(SubSeq(list, 1, Len(list) - 1)),
                         list[Len(list)])

\* _update_statistics
update_statistics(document) ==
    LET sessions == document.learning_sessions
    IN IF sessions = <<>> THEN document
       ELSE [document EXCEPT !.statistics =
                [total_questions |-> Len(sessions),
                 correct_answers |-> count_correct(sessions),
                 average_score |-> round_1(sum_scores(sessions), Len(sessions)),
                 weak_topics |-> sort_by_average(collect_weak(sessions))]]

\* lines 74-85
qa_record_of(t, input) ==
    [timestamp |-> isoformat(t),
     topic |-> input.topic,
     question_zh |-> input.question_zh,
     question_en |-> input.question_en,
     score |-> input.score,
     mastery_level |-> calculate_mastery(input.score)]

\* A mutant of add_qa_record: the new event goes to the front of the log.
add_qa_record_in_front(document, file, t, input) ==
    LET qa_record == qa_record_of(t, input)
        appended == [document EXCEPT !.learning_sessions = <<qa_record>> \o @]
        scheduled == schedule_reviews(update_statistics(appended), qa_record)
    IN [records |-> scheduled, file |-> save_records(scheduled)]

\* add_qa_record: the document in memory and the file it leaves.
add_qa_record(document, file, t, input) ==
    LET qa_record == qa_record_of(t, input)
        appended == [document EXCEPT !.learning_sessions = Append(@, qa_record)]
        scheduled == schedule_reviews(update_statistics(appended), qa_record)
    IN [records |-> scheduled, file |-> save_records(scheduled)]

\* A mutant of is_pending: the whole datetimes are compared, not their dates.
is_pending_datetime(review, day) ==
    /\ ~review.completed
    /\ ~Earlier(day, fromisoformat(review.review_date))

\* lines 198-200
is_pending(review, day) ==
    /\ ~review.completed
    /\ date(fromisoformat(review.review_date)) <= date(day)

\* The loop of get_pending_reviews over the schedule, in its order.
RECURSIVE collect_pending(_, _)
collect_pending(schedule, day) ==
    IF schedule = <<>> THEN <<>>
    ELSE LET rest == collect_pending(SubSeq(schedule, 1, Len(schedule) - 1), day)
             review == schedule[Len(schedule)]
         IN IF is_pending(review, day) THEN Append(rest, review) ELSE rest

\* get_pending_reviews: date is None or <<a datetime>>.
get_pending_reviews(document, t, day) ==
    collect_pending(document.review_schedule, IF day = None THEN t ELSE day[1])

\* A mutant of mark_first: the loop has no break, every match is marked.
RECURSIVE mark_every(_, _, _)
mark_every(schedule, question_zh, review_date) ==
    IF schedule = <<>> THEN <<>>
    ELSE LET review == schedule[1]
             rest == mark_every(Tail(schedule), question_zh, review_date)
         IN IF review.question_zh = question_zh /\ review.review_date = review_date
            THEN <<[review EXCEPT !.completed = TRUE]>> \o rest
            ELSE <<review>> \o rest

\* A mutant of mark_first: the first match's flag is flipped, not set.
RECURSIVE mark_first_flipped(_, _, _)
mark_first_flipped(schedule, question_zh, review_date) ==
    IF schedule = <<>> THEN <<>>
    ELSE LET review == schedule[1]
         IN IF review.question_zh = question_zh /\ review.review_date = review_date
            THEN <<[review EXCEPT !.completed = ~@]>> \o Tail(schedule)
            ELSE <<review>>
                 \o mark_first_flipped(Tail(schedule), question_zh, review_date)

\* The loop of mark_review_completed (lines 213-217), with its break.
RECURSIVE mark_first(_, _, _)
mark_first(schedule, question_zh, review_date) ==
    IF schedule = <<>> THEN <<>>
    ELSE LET review == schedule[1]
         IN IF review.question_zh = question_zh /\ review.review_date = review_date
            THEN <<[review EXCEPT !.completed = TRUE]>> \o Tail(schedule)
            ELSE <<review>> \o mark_first(Tail(schedule), question_zh, review_date)

\* mark_review_completed: the document in memory and the file it leaves; the
\* document is saved whether or not an obligation matched.
mark_review_completed(document, file, question_zh, review_date) ==
    LET marked == [document EXCEPT !.review_schedule =
                      mark_first(@, question_zh, review_date)]
    IN [records |-> marked, file |-> save_records(marked)]

(***************************************************************************)
(* The calls on one LearningRecords instance.                              *)
(***************************************************************************)
\* The values datetime.now() takes: the morning and the afternoon of day 0.
LRClock == { Datetime(0, 0), Datetime(0, 1) }

\* The arguments of add_qa_record under SpecLR: one event of each mastery tier,
\* two topics, two questions.
QAInputs ==
    { [topic |-> "A", question_zh |-> "q1", question_en |-> "e1", score |-> 9],
      [topic |-> "A", question_zh |-> "q1", question_en |-> "e1", score |-> 3],
      [topic |-> "B", question_zh |-> "q2", question_en |-> "e2", score |-> 7],
      [topic |-> "B", question_zh |-> "q1", question_en |-> "e1", score |-> 5] }

\* The arguments of get_pending_reviews: no date (today), day 1, day 2.
QueryDates == { None, Some(Datetime(1, 0)), Some(Datetime(2, 0)) }

\* The arguments of mark_review_completed: the texts due one day after the clock's
\* values, and one that no obligation carries.
MarkQuestions == { "q1", "q2" }
MarkDates ==
    { isoformat(Datetime(1, 0)), isoformat(Datetime(1, 1)), isoformat(Datetime(0, 0)) }

\* The arguments of add_qa_record under SpecStats: two topics, scores on both
\* sides of 7, one question.
StatInput(topic, score) ==
    [topic |-> topic, question_zh |-> "q1", question_en |-> "e1", score |-> score]

StatInputs == { StatInput(t, s) : t \in {"A", "B"}, s \in {3, 6, 7, 9} }

NoLRCall ==
    [op |-> "none", question_zh |-> "", review_date |-> None, date |-> None,
     pending |-> <<>>]

AddQaRecord(input) ==
    \E r \in { add_qa_record(records, records_file, lr_now, input) } :
       /\ records' = r.records
       /\ records_file' = r.file
       /\ lr_ret' = [NoLRCall EXCEPT !.op = "add_qa_record",
                                     !.question_zh = input.question_zh]
       /\ UNCHANGED <<lr_now, kb_vars, cm_vars, two_vars, fn_vars, load_call>>

GetPendingReviews(day) ==
    /\ lr_ret' = [NoLRCall EXCEPT !.op = "get_pending_reviews",
                                  !.date = day,
                                  !.pending = get_pending_reviews(records, lr_now, day)]
    /\ UNCHANGED <<records, records_file, lr_now, kb_vars, cm_vars, two_vars, fn_vars, load_call>>

MarkReviewCompleted(question_zh, review_date) ==
    \E r \in { mark_review_completed(records, records_file, question_zh, review_date) } :
       /\ records' = r.records
       /\ records_file' = r.file
       /\ lr_ret' = [NoLRCall EXCEPT !.op = "mark_review_completed",
                                     !.question_zh = question_zh,
                                     !.review_date = Some(review_date)]
       /\ UNCHANGED <<lr_now, kb_vars, cm_vars, two_vars, fn_vars, load_call>>

\* Time passes.
LRTick ==
    /\ \E t \in LRClock : Earlier(lr_now, t) /\ lr_now' = t
    /\ UNCHANGED <<records, records_file, lr_ret, kb_vars, cm_vars, two_vars, fn_vars, load_call>>

\* LearningRecords(student_name, records_file) on a missing file.
InitLR ==
    /\ records_file = None
    /\ records = load_records(records_file)
    /\ lr_now = Datetime(0, 0)
    /\ lr_ret = NoLRCall

NextLR ==
    \/ \E input \in QAInputs :
          /\ Len(records.learning_sessions) < MaxSessions
          /\ AddQaRecord(input)
    \/ \E day \in QueryDates : GetPendingReviews(day)
    \/ \E question_zh \in MarkQuestions, review_date \in MarkDates :
          MarkReviewCompleted(question_zh, review_date)
    \/ LRTick

(***************************************************************************)
(* The statistics: an instance constructed on a missing file or on the     *)
(* file that an earlier instance left after the events of StoredLog.       *)
(***************************************************************************)
\* add_qa_record for every input of a log in turn, from a missing file.
RECURSIVE Replay(_)
Replay(log) ==
    IF log = <<>> THEN [records |-> EmptyRecords, file |-> None]
    ELSE LET before == Replay(SubSeq(log, 1, Len(log) - 1))
         IN add_qa_record(before.records, before.file, Datetime(0, 0), log[Len(log)])

\* Topic A with the scores 6, 6, 6, 7 and topic B with 6, 6, 6.
StoredLog ==
    << StatInput("A", 6), StatInput("A", 6), StatInput("A", 6), StatInput("A", 7),
       StatInput("B", 6), StatInput("B", 6), StatInput("B", 6) >>

StoredDocument == Replay(StoredLog)

StoredFiles == { None, StoredDocument.file }

\* The number of events added since the instance was constructed.
NewEvents ==
    LET sessions == records.learning_sessions
        stored == StoredDocument.records.learning_sessions
    IN IF Len(sessions) >= Len(stored) /\ SubSeq(sessions, 1, Len(stored)) = stored
       THEN Len(sessions) - Len(stored) ELSE Len(sessions)

InitStats ==
    /\ records_file \in StoredFiles
    /\ records = load_records(records_file)
    /\ lr_now = Datetime(0, 0)
    /\ lr_ret = NoLRCall

NextStats ==
    \/ \E input \in StatInputs :
          /\ NewEvents < MaxStatEvents
          /\ AddQaRecord(input)
    \/ MarkReviewCompleted("q1", isoformat(Datetime(1, 0)))

(***************************************************************************)
(* The mastery tier: events of every integer score from below 0 to above   *)
(* 10, which the code neither clamps nor rejects.                          *)
(***************************************************************************)
MasteryScores == (0 - ScoreMargin)..(10 + ScoreMargin)

NextMastery ==
    \E score \in MasteryScores :
       /\ Len(records.learning_sessions) < MaxSessions
       /\ AddQaRecord([topic |-> "A", question_zh |-> "q1", question_en |-> "e1",
                       score |-> score])

(***************************************************************************)
(* Two instances of each class in one process, opened on the same file.    *)
(* The first ones are knowledge_base and records, constructed on the       *)
(* missing files; the second ones are constructed at any later moment.     *)
(* No method reloads the file: an instance reads it in its constructor     *)
(* only, and every write dumps the instance's own document.                *)
(***************************************************************************)
Instances == { "first", "second" }

\* The arguments the two instances' calls draw from: two questions that are not
\* similar to each other, one topic, two events.
TwoTopics == { <<"S", "Q", "L">> }
TwoQuestions == { <<"shu", "ju">>, <<"ju", "shu">> }
TwoInputs ==
    { [topic |-> "A", question_zh |-> "q1", question_en |-> "e1", score |-> 9],
      [topic |-> "B", question_zh |-> "q2", question_en |-> "e2", score |-> 3] }

NoSharedCall ==
    [instance |-> "none", topic |-> <<>>, question_zh |-> <<>>, status |-> "NONE",
     added_by_other |-> FALSE]

\* SmartKnowledgeBase(kb_file), a second time
OpenSecondKB ==
    /\ kb_other = None
    /\ kb_other' = Some(load_kb(kb_file))
    /\ UNCHANGED <<records_other, shared_log, kb_vars, cm_vars, lr_vars, fn_vars, load_call>>

\* LearningRecords(student_name, records_file), a second time
OpenSecondLR ==
    /\ records_other = None
    /\ records_other' = Some(load_records(records_file))
    /\ UNCHANGED <<kb_other, shared_log, kb_vars, cm_vars, lr_vars, fn_vars, load_call>>

\* add_question on one of the two SmartKnowledgeBase instances
AddQuestionOn(instance, topic, question_zh, force) ==
    /\ instance = "second" => kb_other # None
    /\ \E r \in { add_question(IF instance = "first" THEN knowledge_base
                               ELSE kb_other[1],
                               kb_file, topic, question_zh, force) } :
          /\ knowledge_base' = IF instance = "first" THEN r.kb ELSE knowledge_base
          /\ kb_other' = IF instance = "second" THEN Some(r.kb) ELSE kb_other
          /\ kb_file' = r.file
          /\ shared_log' =
                [shared_log EXCEPT
                    !.added = IF r.status = "ADDED"
                              THEN @ \cup { <<instance, topic, question_zh>> }
                              ELSE @,
                    !.last = [instance |-> instance,
                              topic |-> topic,
                              question_zh |-> question_zh,
                              status |-> r.status,
                              added_by_other |->
                                  \E other \in Instances \ {instance} :
                                      <<other, topic, question_zh>> \in shared_log.added]]
    /\ UNCHANGED <<ret, repeat_of, records_other, cm_vars, lr_vars, fn_vars, load_call>>

\* add_qa_record on one of the two LearningRecords instances
AddQaRecordOn(instance, input) ==
    /\ instance = "second" => records_other # None
    /\ \E r \in { add_qa_record(IF instance = "first" THEN records
                                ELSE records_other[1],
                                records_file, lr_now, input) } :
          /\ Len(r.records.learning_sessions) <= MaxSessions
          /\ records' = IF instance = "first" THEN r.records ELSE records
          /\ records_other' = IF instance = "second" THEN Some(r.records)
                              ELSE records_other
          /\ records_file' = r.file
          /\ shared_log' = [shared_log EXCEPT !.passed = @ \cup { input }]
    /\ UNCHANGED <<lr_now, lr_ret, kb_other, kb_vars, cm_vars, fn_vars, load_call>>

InitTwo ==
    /\ kb_other = None
    /\ records_other = None
    /\ shared_log = [added |-> {}, passed |-> {}, last |-> NoSharedCall]

NextTwo ==
    \/ OpenSecondKB
    \/ OpenSecondLR
    \/ \E instance \in Instances, topic \in TwoTopics, question_zh \in TwoQuestions,
          force \in BOOLEAN :
          AddQuestionOn(instance, topic, question_zh, force)
    \/ \E instance \in Instances, input \in TwoInputs : AddQaRecordOn(instance, input)

(***************************************************************************)
(* The two pure functions of the knowledge base, applied to inputs that    *)
(* the initial state draws.                                                *)
(***************************************************************************)
\* The characters of the texts: an ideograph, the one-character stop word, the two
\* characters of the two-character stop word, a Latin letter.
FnChars == { "shu", "de", "shen", "me", "G" }
FnTexts == UNION { [1..n -> FnChars] : n \in 0..MaxTextLen }

\* The keywords of the sets.
FnKeywords == { <<"shu">>, <<"ju">>, <<"shu", "ju">>, <<"ju", "shu">> }

NoKeywordsCall == [text |-> <<>>, called |-> FALSE, keywords |-> {}]
NoSimilarityCall ==
    [keywords1 |-> {}, keywords2 |-> {}, called |-> FALSE,
     similarity |-> [num |-> 0, den |-> 1]]

ExtractKeywords ==
    /\ ~kw_call.called
    /\ kw_call' = [kw_call EXCEPT !.called = TRUE,
                                  !.keywords = extract_keywords(kw_call.text)]
    /\ UNCHANGED <<sim_call, kb_vars, cm_vars, lr_vars, two_vars,
                 load_call>>

CalculateSimilarity ==
    /\ ~sim_call.called
    /\ sim_call' = [sim_call EXCEPT
                       !.called = TRUE,
                       !.similarity = calculate_similarity(sim_call.keywords1,
                                                           sim_call.keywords2)]
    /\ UNCHANGED <<kw_call, kb_vars, cm_vars, lr_vars, two_vars,
                 load_call>>

InitFn ==
    /\ kw_call = NoKeywordsCall
    /\ sim_call = NoSimilarityCall

InitFnInputs ==
    \/ /\ kw_call \in { [NoKeywordsCall EXCEPT !.text = text] : text \in FnTexts }
       /\ sim_call = NoSimilarityCall
    \/ /\ kw_call = NoKeywordsCall
       /\ sim_call \in { [NoSimilarityCall EXCEPT !.keywords1 = keywords1,
                                                  !.keywords2 = keywords2] :
                             keywords1 \in SUBSET FnKeywords,
                             keywords2 \in SUBSET FnKeywords }

NextFn ==
    \/ ExtractKeywords
    \/ CalculateSimilarity

(***************************************************************************)
(* A process that holds a single instance of one of the three classes: the *)
(* other two classes are never called.                                     *)
(***************************************************************************)
NextOne ==
    \/ /\ cm_ret = Called("init") /\ now = 0
       /\ lr_ret = NoLRCall /\ lr_now = Datetime(0, 0)
       /\ NextKB
    \/ /\ ret = NoCall
       /\ lr_ret = NoLRCall /\ lr_now = Datetime(0, 0)
       /\ NextCM
    \/ /\ ret = NoCall
       /\ cm_ret = Called("init") /\ now = 0
       /\ NextLR

(***************************************************************************)
(* Construction on a stored file: _load_kb, _load_records and _load_state. *)
(* A file is missing, refused by the operating system, not UTF-8, or a     *)
(* text; json.load turns a text into a value or raises JSONDecodeError.    *)
(* A value is its JSON type and, for an object, its members' names and     *)
(* types.                                                                  *)
(***************************************************************************)
LoadClasses == {"knowledge_base", "records", "state"}

JsonValue(type, members) == [type |-> type, members |-> members]

\* The texts the stored files hold.
KnowledgeBaseText == "{\"topics\": {}, \"metadata\": {}}"
RecordsText ==
    "{\"student_name\": \"Sixi\", \"created_at\": \"2026\", \"learning_sessions\": [], \"review_schedule\": [], \"statistics\": {}}"
StateText ==
    "{\"current_state\": \"idle\", \"learning_in_progress\": false, \"active_topics\": [], \"last_activity\": null, \"suppress_until\": null, \"user_preference\": {}, \"metadata\": {}}"

KnowledgeBaseMembers == { <<"topics", "object">>, <<"metadata", "object">> }

RecordsMembers ==
    { <<"student_name", "string">>, <<"created_at", "string">>,
      <<"learning_sessions", "array">>, <<"review_schedule", "array">>,
      <<"statistics", "object">> }

StateMembers ==
    { <<"current_state", "string">>, <<"learning_in_progress", "boolean">>,
      <<"active_topics", "array">>, <<"last_activity", "null">>,
      <<"suppress_until", "null">>, <<"user_preference", "object">>,
      <<"metadata", "object">> }

\* Texts that are not JSON, and texts that are.
LoadTexts ==
    { "", "{", "{\"topics\":", "[1,", "nul", "{'topics': {}}" }
       \cup { "{}", "[]", "0", "null", "\"text\"", "{\"topics\": []}",
              "{\"learning_sessions\": []}", "{\"current_state\": \"idle\"}",
              KnowledgeBaseText, RecordsText, StateText }

\* json.load on a text: None for JSONDecodeError, else the value.  Only the
\* JSON grammar decides; no member is looked at.
json_load(text) ==
    CASE text = "{}" -> Some(JsonValue("object", {}))
      [] text = "[]" -> Some(JsonValue("array", {}))
      [] text = "0" -> Some(JsonValue("number", {}))
      [] text = "null" -> Some(JsonValue("null", {}))
      [] text = "\"text\"" -> Some(JsonValue("string", {}))
      [] text = "{\"topics\": []}" ->
            Some(JsonValue("object", { <<"topics", "array">> }))
      [] text = "{\"learning_sessions\": []}" ->
            Some(JsonValue("object", { <<"learning_sessions", "array">> }))
      [] text = "{\"current_state\": \"idle\"}" ->
            Some(JsonValue("object", { <<"current_state", "string">> }))
      [] text = KnowledgeBaseText -> Some(JsonValue("object", KnowledgeBaseMembers))
      [] text = RecordsText -> Some(JsonValue("object", RecordsMembers))
      [] text = StateText -> Some(JsonValue("object", StateMembers))
      [] OTHER -> None

\* The document the except branch of each _load_* returns.
default_document(class) ==
    CASE class = "knowledge_base" -> JsonValue("object", KnowledgeBaseMembers)
      [] class = "records" -> JsonValue("object", RecordsMembers)
      [] class = "state" -> JsonValue("object", StateMembers)

LoadFiles ==
    { [kind |-> kind, text |-> ""] : kind \in {"missing", "denied", "directory", "bytes"} }
       \cup { [kind |-> "text", text |-> text] : text \in LoadTexts }

\* open(file, 'r', encoding='utf-8') followed by json.load(f): the exception
\* raised, "None" when there is none.
open_and_load(file) ==
    LET raised == CASE file.kind = "missing" -> "FileNotFoundError"
                    [] file.kind = "denied" -> "PermissionError"
                    [] file.kind = "directory" -> "IsADirectoryError"
                    [] file.kind = "bytes" -> "UnicodeDecodeError"
                    [] file.kind = "text" ->
                          IF json_load(file.text) = None
                          THEN "JSONDecodeError" ELSE "None"
    IN [raised |-> raised,
        value |-> IF raised = "None"
                  THEN json_load(file.text)[1] ELSE JsonValue("none", {})]

\* _load_kb, _load_records, _load_state: try json.load, except
\* FileNotFoundError return the default; every other exception leaves the
\* constructor.  The three bodies differ only in the default.
load(class, file) ==
    IF open_and_load(file).raised = "FileNotFoundError"
    THEN [raised |-> "None", defaulted |-> TRUE, value |-> default_document(class)]
    ELSE [raised |-> open_and_load(file).raised, defaulted |-> FALSE,
          value |-> open_and_load(file).value]

NoLoadCall ==
    [class |-> "none", file |-> [kind |-> "missing", text |-> ""], loaded |-> FALSE,
     file_after |-> [kind |-> "missing", text |-> ""],
     outcome |-> [raised |-> "None", defaulted |-> FALSE, value |-> JsonValue("none", {})]]

\* __init__ of any of the three classes: the file is opened for reading only.
Load ==
    /\ load_call.class \in LoadClasses
    /\ ~load_call.loaded
    /\ load_call' = [load_call EXCEPT
                        !.loaded = TRUE,
                        !.file_after = load_call.file,
                        !.outcome = load(load_call.class, load_call.file)]
    /\ UNCHANGED <<kb_vars, cm_vars, lr_vars, two_vars, fn_vars>>

InitLoad == load_call = NoLoadCall

InitLoadFiles ==
    load_call \in { [NoLoadCall EXCEPT !.class = class, !.file = file,
                                       !.file_after = file] :
                        class \in LoadClasses, file \in LoadFiles }

Init == InitKB /\ InitCM /\ InitLR /\ InitTwo /\ InitFn /\ InitLoad

\* The knowledge base under any sequence of add_question calls.
SpecKB == Init /\ [][NextKB]_vars

\* The coordination manager under any interleaving of its callers and the clock.
SpecCM == Init /\ [][NextCM]_vars

\* One LearningRecords instance under any sequence of its calls and the clock.
SpecLR == Init /\ [][NextLR]_vars

\* The statistics of a LearningRecords instance, on a missing or a stored file.
InitOnStored == InitKB /\ InitCM /\ InitStats /\ InitTwo /\ InitFn /\ InitLoad

SpecStats == InitOnStored /\ [][NextStats]_vars

\* add_qa_record with scores inside and outside the 0-10 scale.
SpecMastery == Init /\ [][NextMastery]_vars

\* One construction on each kind of stored file.
InitOnFiles == InitKB /\ InitCM /\ InitLR /\ InitTwo /\ InitFn /\ InitLoadFiles

SpecLoad == InitOnFiles /\ [][Load]_vars

\* A single instance of one class, under any sequence of its operations.
SpecOne == Init /\ [][NextOne]_vars

\* Two instances of each class on the same files, in any interleaving.
SpecTwo == Init /\ [][NextTwo]_vars

\* extract_keywords and calculate_similarity on every input of the bounded sets.
InitOnInputs == InitKB /\ InitCM /\ InitLR /\ InitTwo /\ InitFnInputs /\ InitLoad

SpecFn == InitOnInputs /\ [][NextFn]_vars


(***************************************************************************)
(* The claims about the knowledge base, checked under SpecKB.              *)
(***************************************************************************)
\* The questions of a topic name in a document, empty when the topic is absent.
QuestionsOf(kb, topic) ==
    IF TopicId(topic) \in DOMAIN kb.topics
    THEN kb.topics[TopicId(topic)].questions ELSE <<>>

\* The Jaccard similarity of two question texts.
Jaccard(text1, text2) ==
    calculate_similarity(KeywordsOf[text1], KeywordsOf[text2])

\* A similarity of at least 0.6, 0.6 included.
AtLeastSixTenths(similarity) == 5 * similarity.num >= 3 * similarity.den

\* The place of the record with the digest h in a list of question records.
PlaceOf(questions, h) ==
    CHOOSE i \in 1..Len(questions) : questions[i].question_hash = h

\* C1: after any sequence of add_question calls, no two question records stored
\* under the same topic have the same question_hash.
C1_UniqueDigestPerTopic ==
    \A t \in DOMAIN knowledge_base.topics :
        LET qs == knowledge_base.topics[t].questions
        IN \A i, j \in 1..Len(qs) :
               i # j => qs[i].question_hash # qs[j].question_hash

\* A forced call was refused as an exact duplicate in a topic of several records.
C1_Witness ==
    /\ ret.status = "EXACT_DUPLICATE"
    /\ ret.force
    /\ Len(QuestionsOf(knowledge_base, ret.topic)) >= 2

\* C2: a call that returns EXACT_DUPLICATE or SIMILAR_FOUND leaves the document in
\* memory and the persisted document unchanged; a call that returns ADDED changes
\* only its topic's list, by appending one record with review_count 0 and
\* last_reviewed unset, and persists the document.
C2_OnlyAddedMutates ==
    [][ /\ ret'.status \in {"EXACT_DUPLICATE", "SIMILAR_FOUND"} =>
              /\ knowledge_base' = knowledge_base
              /\ kb_file' = kb_file
        /\ ret'.status = "ADDED" =>
              LET tid == TopicId(ret'.topic)
                  old == QuestionsOf(knowledge_base, ret'.topic)
                  new == QuestionsOf(knowledge_base', ret'.topic)
              IN /\ DOMAIN knowledge_base'.topics =
                        DOMAIN knowledge_base.topics \cup {tid}
                 /\ \A t \in DOMAIN knowledge_base.topics \ {tid} :
                        knowledge_base'.topics[t] = knowledge_base.topics[t]
                 /\ Len(new) = Len(old) + 1
                 /\ SubSeq(new, 1, Len(old)) = old
                 /\ new[Len(new)].question_zh = ret'.question_zh
                 /\ new[Len(new)].review_count = 0
                 /\ new[Len(new)].last_reviewed = None
                 /\ kb_file' = Some(knowledge_base')
      ]_vars

\* A call was refused as similar while both topics hold records, and the file is
\* the one the last ADDED call wrote.
C2_Witness ==
    /\ ret.status = "SIMILAR_FOUND"
    /\ Cardinality(DOMAIN knowledge_base.topics) = 2
    /\ Len(QuestionsOf(knowledge_base, ret.topic)) = 2
    /\ kb_file = Some(knowledge_base)

\* C3 as stated: whenever add_question is called twice in a row with the same topic
\* and the same question text, the second call returns EXACT_DUPLICATE, whatever the
\* first call returned.
C3_SecondCallAlwaysDuplicate ==
    repeat_of # "NONE" => ret.status = "EXACT_DUPLICATE"

\* C3 amended: when add_question is called twice in a row with the same topic and
\* the same question text and the first call returned ADDED or EXACT_DUPLICATE, the
\* second call returns EXACT_DUPLICATE, for every combination of force values.
C3_SecondCallDuplicateOnceStored ==
    repeat_of \in {"ADDED", "EXACT_DUPLICATE"} => ret.status = "EXACT_DUPLICATE"

\* A question was added and at once submitted again with force=true.
C3_Witness ==
    /\ repeat_of = "ADDED"
    /\ ret.force
    /\ ret.status = "EXACT_DUPLICATE"

\* C4: with force false and no record of the topic having the new question's digest,
\* the call returns SIMILAR_FOUND exactly when some record of the topic has Jaccard
\* similarity >= 0.6 with the new question, and the match list then holds exactly
\* those records of the topic.
C4_SimilarIffAtThreshold ==
    [][ LET old == QuestionsOf(knowledge_base, ret'.topic)
            matching == { i \in 1..Len(old) :
                            AtLeastSixTenths(Jaccard(ret'.question_zh, old[i].question_zh)) }
        IN ( /\ ~ret'.force
             /\ \A i \in 1..Len(old) :
                    old[i].question_hash # QuestionHash(ret'.question_zh) )
           => /\ ret'.status = "SIMILAR_FOUND" <=> matching # {}
              /\ ret'.status = "SIMILAR_FOUND" =>
                    /\ Len(ret'.similar) = Cardinality(matching)
                    /\ { <<ret'.similar[k].question, ret'.similar[k].hash>> :
                           k \in 1..Len(ret'.similar) }
                       = { <<old[i].question_zh, old[i].question_hash>> : i \in matching }
      ]_vars

\* A call was refused on a match of similarity exactly 0.6, while the topic holds a
\* record below the threshold and the other topic holds a record above it that the
\* topic does not hold.
C4_Witness ==
    /\ ret.status = "SIMILAR_FOUND"
    /\ \E k \in 1..Len(ret.similar) :
          5 * ret.similar[k].similarity.num = 3 * ret.similar[k].similarity.den
    /\ Len(ret.similar) < Len(QuestionsOf(knowledge_base, ret.topic))
    /\ \E other \in TopicNames \ {ret.topic} :
          \E i \in 1..Len(QuestionsOf(knowledge_base, other)) :
             LET qa == QuestionsOf(knowledge_base, other)[i]
             IN /\ AtLeastSixTenths(Jaccard(ret.question_zh, qa.question_zh))
                /\ \A k \in 1..Len(ret.similar) : ret.similar[k].hash # qa.question_hash

\* C5: the match list returned with SIMILAR_FOUND is in descending order of
\* similarity, and matches of equal similarity are in the order in which their
\* records were inserted into the topic.
C5_MatchesSortedStable ==
    ret.status = "SIMILAR_FOUND" =>
        LET qs == QuestionsOf(knowledge_base, ret.topic)
            sim(k) == Jaccard(ret.question_zh, ret.similar[k].question)
        IN \A i, j \in 1..Len(ret.similar) :
              i < j =>
                 /\ sim(i).num * sim(j).den >= sim(j).num * sim(i).den
                 /\ sim(i).num * sim(j).den = sim(j).num * sim(i).den =>
                       PlaceOf(qs, ret.similar[i].hash) < PlaceOf(qs, ret.similar[j].hash)

\* Three matches: the first two tie, the third is lower and was inserted first.
C5_Witness ==
    /\ ret.status = "SIMILAR_FOUND"
    /\ Len(ret.similar) = 3
    /\ ret.similar[1].similarity = ret.similar[2].similarity
    /\ ret.similar[2].similarity.num * ret.similar[3].similarity.den
          > ret.similar[3].similarity.num * ret.similar[2].similarity.den
    /\ PlaceOf(QuestionsOf(knowledge_base, ret.topic), ret.similar[3].hash) = 1

\* C6: the end-to-end scenario, one step at a time.  On a topic that does not exist
\* the call returns ADDED and the topic holds that question alone; on a topic holding
\* Q1 alone, adding Q1 returns EXACT_DUPLICATE, adding another question P of
\* similarity >= 0.6 without force returns SIMILAR_FOUND with Q1 listed, both leaving
\* the topic as it is, and adding P with force returns ADDED and leaves 2 records.
\* In general a forced call whose digest no record of the topic has returns ADDED.
C6_ScenarioAndForce ==
    [][ LET P == ret'.question_zh
            old == QuestionsOf(knowledge_base, ret'.topic)
            new == QuestionsOf(knowledge_base', ret'.topic)
            onlyQ1 == Len(old) = 1
            paraphrase == /\ onlyQ1
                          /\ old[1].question_zh # P
                          /\ AtLeastSixTenths(Jaccard(P, old[1].question_zh))
        IN /\ TopicId(ret'.topic) \notin DOMAIN knowledge_base.topics =>
                 /\ ret'.status = "ADDED"
                 /\ Len(new) = 1 /\ new[1].question_zh = P
           /\ (onlyQ1 /\ old[1].question_zh = P) =>
                 /\ ret'.status = "EXACT_DUPLICATE"
                 /\ new = old
           /\ (paraphrase /\ ~ret'.force) =>
                 /\ ret'.status = "SIMILAR_FOUND"
                 /\ \E k \in 1..Len(ret'.similar) :
                       ret'.similar[k].question = old[1].question_zh
                 /\ new = old
           /\ (paraphrase /\ ret'.force) =>
                 /\ ret'.status = "ADDED"
                 /\ Len(new) = 2
           /\ ( /\ ret'.force
                /\ \A i \in 1..Len(old) : old[i].question_hash # QuestionHash(P) )
              => ret'.status = "ADDED"
      ]_vars

\* The scenario's end: the paraphrase, refused as similar, was added by force, and
\* the topic holds Q1 and the paraphrase.
C6_Witness ==
    LET qs == QuestionsOf(knowledge_base, ret.topic)
    IN /\ ret.status = "ADDED"
       /\ ret.force
       /\ repeat_of = "SIMILAR_FOUND"
       /\ Len(qs) = 2
       /\ qs[2].question_zh = ret.question_zh
       /\ AtLeastSixTenths(Jaccard(qs[1].question_zh, qs[2].question_zh))


(***************************************************************************)
(* The claims about the coordination manager, checked under SpecCM.        *)
(***************************************************************************)
\* A step that is a call of can_anki_review: every other call leaves another name
\* in cm_ret, and the clock's step moves the clock.
IsCanAnkiReviewCall == cm_ret'.op = "can_anki_review" /\ now' = now

\* A step that is a call of can_auto_teach.
IsCanAutoTeachCall == cm_ret'.op = "can_auto_teach" /\ now' = now

\* The user is in an active learning session: start_active_learning was called,
\* end_active_learning (the only place that clears learning_in_progress) was not
\* called since, and the last activity is at most 30 minutes old.
InActiveSession ==
    /\ cm.learning_in_progress
    /\ cm.last_activity # None
    /\ now - cm.last_activity[1] <= TimeoutMinutes

\* start_active_learning was called, the session was not ended, and the last
\* activity is more than 30 minutes old.
SessionTimedOut ==
    /\ cm.learning_in_progress
    /\ cm.last_activity # None
    /\ now - cm.last_activity[1] > TimeoutMinutes

\* C7: with producers that start only right after their check allowed it and end
\* what they started, and a user who starts and ends active learning at any moment,
\* an anki review and an auto-teaching run are never in progress at the same time.
C7_ReviewExcludesTeaching == ~(review_running /\ teaching_running)

\* C8: while the user is in an active learning session, every call of
\* can_anki_review and of can_auto_teach returns allowed=false.
C8_ActiveSessionBlocksProducers ==
    [][ ((IsCanAnkiReviewCall \/ IsCanAutoTeachCall) /\ InActiveSession)
           => cm_ret'.allowed = FALSE ]_vars

\* C9: once a session that start_active_learning opened has been inactive for more
\* than 30 minutes, and no pause flag or suppression is in force, the next call of
\* can_anki_review, and likewise of can_auto_teach, ends the active-learning state
\* (current_state idle, learning_in_progress false) and returns allowed=true.
C9_InactiveSessionEndsOnCheck ==
    [][ ( \/ IsCanAnkiReviewCall /\ ~cm.pause_auto_review
          \/ IsCanAutoTeachCall /\ ~cm.pause_auto_learning )
        /\ SessionTimedOut
        /\ ~suppressed(cm, now)
        => /\ cm'.current_state = STATE_IDLE
           /\ cm'.learning_in_progress = FALSE
           /\ cm_ret'.allowed = TRUE ]_vars

\* C10: a pause with a duration expires by itself.  When the last pause call was
\* pause_auto_learning with a duration, the clock is past the recorded
\* suppress_until and the mode is idle, can_auto_teach returns allowed=true; the
\* same for pause_auto_review and can_anki_review.
C10_TimedPauseExpires ==
    [][ ( /\ last_pause.timed
          /\ cm.suppress_until # None
          /\ now > cm.suppress_until[1]
          /\ cm.current_state = STATE_IDLE
          /\ \/ IsCanAutoTeachCall /\ last_pause.who = "learning"
             \/ IsCanAnkiReviewCall /\ last_pause.who = "review" )
        => cm_ret'.allowed = TRUE ]_vars


(***************************************************************************)
(* The claim about two instances on the same file, checked under SpecTwo.  *)
(***************************************************************************)
\* The document of a file, empty while the file does not exist.
PersistedKB == load_kb(kb_file)
PersistedRecords == load_records(records_file)

\* C11: with two SmartKnowledgeBase instances (or two LearningRecords instances)
\* opened on the same file, after any interleaving of their writes the persisted
\* document contains every question for which add_question returned ADDED and
\* every event passed to add_qa_record, and an add_question on one instance
\* returns EXACT_DUPLICATE for a question already ADDED through the other.
C11_InstancesObserveEachOther ==
    /\ \A a \in shared_log.added :
           \E i \in 1..Len(QuestionsOf(PersistedKB, a[2])) :
               QuestionsOf(PersistedKB, a[2])[i].question_zh = a[3]
    /\ \A input \in shared_log.passed :
           \E i \in 1..Len(PersistedRecords.learning_sessions) :
               LET s == PersistedRecords.learning_sessions[i]
               IN /\ s.topic = input.topic
                  /\ s.question_zh = input.question_zh
                  /\ s.score = input.score
    /\ shared_log.last.added_by_other => shared_log.last.status = "EXACT_DUPLICATE"

(***************************************************************************)
(* The claims about the learning records, checked under SpecLR.            *)
(***************************************************************************)
\* The step is an add_qa_record call (a mark_review_completed call).
IsAddQaRecordStep == lr_ret'.op = "add_qa_record" /\ lr_now' = lr_now
IsMarkStep == lr_ret'.op = "mark_review_completed" /\ lr_now' = lr_now
IsPendingStep == lr_ret'.op = "get_pending_reviews" /\ lr_now' = lr_now

\* The interval list of a mastery tier, in days.
TierIntervals ==
    [excellent |-> <<1, 3, 7, 15, 30>>,
     good |-> <<1, 2, 5, 10, 20>>,
     fair |-> <<1, 2, 4, 7, 14>>,
     poor |-> <<1, 1, 3, 5, 10>>]

\* The isoformat text of the datetime a number of days after an isoformat text.
DaysAfter(text, days) == <<text[1] + days, text[2]>>

\* C12: every add_qa_record call appends exactly 5 obligations to the end of
\* review_schedule, in the order of the interval list of the event's mastery tier;
\* the i-th is due at the event's timestamp plus the i-th interval in days, carries
\* the event's topic, question texts and mastery tier and has completed = false; so
\* the number of obligations is always 5 times the number of events.
C12_FiveObligationsPerEvent ==
    [][ /\ IsAddQaRecordStep =>
              LET old == records.review_schedule
                  new == records'.review_schedule
                  event == records'.learning_sessions[Len(records'.learning_sessions)]
                  intervals == TierIntervals[event.mastery_level]
              IN /\ Len(new) = Len(old) + 5
                 /\ SubSeq(new, 1, Len(old)) = old
                 /\ \A i \in 1..5 :
                       LET review == new[Len(old) + i]
                       IN /\ review.review_date = DaysAfter(event.timestamp, intervals[i])
                          /\ review.interval_days = intervals[i]
                          /\ review.topic = event.topic
                          /\ review.question_zh = event.question_zh
                          /\ review.question_en = event.question_en
                          /\ review.mastery_level = event.mastery_level
                          /\ review.completed = FALSE
        /\ Len(records'.review_schedule) = 5 * Len(records'.learning_sessions)
      ]_vars

\* A second event, of the tier "poor" (the intervals 1, 1, 3, 5, 10), was logged in
\* the afternoon behind an event with a completed obligation.
C12_Witness ==
    /\ lr_ret.op = "add_qa_record"
    /\ Len(records.learning_sessions) = 2
    /\ records.learning_sessions[2].mastery_level = "poor"
    /\ records.learning_sessions[2].timestamp = <<0, 1>>
    /\ records.review_schedule[1].completed

\* C13: across add_qa_record and mark_review_completed calls an obligation is never
\* removed or reordered, none of its fields other than completed changes, and
\* completed never goes from true back to false.
C13_ObligationsKeptAndMonotonic ==
    [][ LET old == records.review_schedule
            new == records'.review_schedule
        IN /\ Len(new) >= Len(old)
           /\ \A i \in 1..Len(old) :
                 /\ [new[i] EXCEPT !.completed = old[i].completed] = old[i]
                 /\ old[i].completed => new[i].completed
      ]_vars

\* An obligation that was completed is marked once more, with an event logged in
\* between.
C13_Witness ==
    /\ lr_ret.op = "mark_review_completed"
    /\ Len(records.learning_sessions) = 2
    /\ \E i \in 1..Len(records.review_schedule) :
          /\ records.review_schedule[i].completed
          /\ records.review_schedule[i].question_zh = lr_ret.question_zh
          /\ Some(records.review_schedule[i].review_date) = lr_ret.review_date
    /\ \E i, j \in 1..Len(records.review_schedule) :
          /\ records.review_schedule[i].completed
          /\ records.review_schedule[j].completed
          /\ i <= 5 /\ j > 5

\* C14: the session log is append-only: after a call the log has the log before the
\* call as a prefix; add_qa_record extends it by exactly one event, and
\* mark_review_completed and get_pending_reviews leave it unchanged.
C14_SessionLogAppendOnly ==
    [][ LET old == records.learning_sessions
            new == records'.learning_sessions
        IN /\ Len(new) >= Len(old)
           /\ SubSeq(new, 1, Len(old)) = old
           /\ IsAddQaRecordStep => Len(new) = Len(old) + 1
           /\ (IsMarkStep \/ IsPendingStep) => new = old
      ]_vars

\* Two different events are in the log, and a mark_review_completed call that
\* completed an obligation came after them.
C14_Witness ==
    /\ lr_ret.op = "mark_review_completed"
    /\ Len(records.learning_sessions) = 2
    /\ records.learning_sessions[1] # records.learning_sessions[2]
    /\ \E i \in 1..Len(records.review_schedule) : records.review_schedule[i].completed

\* The calendar day a get_pending_reviews call asks about: the day of its
\* argument, or today when it has none.
QueryDay(call, t) == IF call.date = None THEN t.day ELSE call.date[1].day

\* C15: get_pending_reviews(date) returns exactly the obligations with
\* completed = false whose due calendar day is on or before the calendar day of
\* the query (the time of day ignored on both sides), in stored order, and it
\* changes no state.
C15_PendingAreDueAndOpen ==
    [][ IsPendingStep =>
           /\ lr_ret'.pending =
                 SelectSeq(records.review_schedule,
                           LAMBDA review : /\ review.completed = FALSE
                                           /\ review.review_date[1]
                                                 <= QueryDay(lr_ret', lr_now))
           /\ records' = records
           /\ records_file' = records_file
      ]_vars

\* A query for the morning of day 1 returned an obligation due in the afternoon of
\* day 1, while the schedule also holds a completed obligation due on day 1 and
\* obligations due later.
C15_Witness ==
    /\ lr_ret.op = "get_pending_reviews"
    /\ lr_ret.date = Some(Datetime(1, 0))
    /\ \E i \in 1..Len(lr_ret.pending) : lr_ret.pending[i].review_date = <<1, 1>>
    /\ \E i \in 1..Len(records.review_schedule) :
          /\ records.review_schedule[i].completed
          /\ records.review_schedule[i].review_date[1] = 1
    /\ Len(lr_ret.pending) >= 2
    /\ Len(lr_ret.pending) < Len(records.review_schedule) - 1

\* The places of the obligations a mark_review_completed call's arguments match.
MatchesOf(schedule, call) ==
    { i \in 1..Len(schedule) :
         /\ schedule[i].question_zh = call.question_zh
         /\ Some(schedule[i].review_date) = call.review_date }

\* C16: mark_review_completed(question, due) sets completed = true on the first
\* obligation in stored order whose question text and due-date value both equal
\* the arguments and changes no other obligation; when none matches, the schedule,
\* the session log and the statistics stay unchanged.
C16_MarksFirstMatchOnly ==
    [][ IsMarkStep =>
           LET old == records.review_schedule
               matches == MatchesOf(old, lr_ret')
           IN /\ records'.learning_sessions = records.learning_sessions
              /\ records'.statistics = records.statistics
              /\ matches = {} => records'.review_schedule = old
              /\ matches # {} =>
                    LET first == CHOOSE i \in matches : \A j \in matches : i <= j
                    IN records'.review_schedule =
                          [old EXCEPT ![first] = [@ EXCEPT !.completed = TRUE]]
      ]_vars

\* A call matched two obligations (the two of the tier "poor" that are due on the
\* same day): the first is completed, the second is not.
C16_Witness ==
    /\ lr_ret.op = "mark_review_completed"
    /\ \E i, j \in MatchesOf(records.review_schedule, lr_ret) :
          /\ i < j
          /\ records.review_schedule[i].completed
          /\ ~records.review_schedule[j].completed

(***************************************************************************)
(* The claims about the statistics, checked under SpecStats.               *)
(***************************************************************************)
\* The scores and the topics of the session log, in its order.
ScoresOf(sessions) == [i \in 1..Len(sessions) |-> sessions[i].score]
TopicsOf(sessions) == [i \in 1..Len(sessions) |-> sessions[i].topic]

\* The sum of the scores of the events of a topic, and their number.
TopicSum(sessions, topic) ==
    sum_scores(SelectSeq(sessions, LAMBDA s : s.topic = topic))
TopicCount(sessions, topic) ==
    Cardinality({ i \in 1..Len(sessions) : sessions[i].topic = topic })

\* tenths / 10 is total / count rounded to one decimal: a nearest tenth.
IsRoundedMean(tenths, total, count) ==
    /\ 2 * (10 * total - tenths * count) <= count
    /\ 2 * (tenths * count - 10 * total) <= count

\* C17: after an add_qa_record call and in every state reached afterwards the
\* stored statistics equal a recomputation over the whole session log:
\* total_questions is the number of events, correct_answers the number of events
\* with a score of at least 7, average_score the mean of all scores rounded to one
\* decimal; the scores 9, 3, 3 on the topics A, B, B give the average 5.0, 1
\* acceptable event and the weak topics [B, mean 3.0, 2 attempts].
C17_StatisticsAreRecomputed ==
    LET sessions == records.learning_sessions
        statistics == records.statistics
    IN sessions # <<>> =>
          /\ statistics.total_questions = Len(sessions)
          /\ statistics.correct_answers =
                Cardinality({ i \in 1..Len(sessions) : sessions[i].score >= 7 })
          /\ IsRoundedMean(statistics.average_score, sum_scores(sessions),
                           Len(sessions))
          /\ (ScoresOf(sessions) = <<9, 3, 3>> /\ TopicsOf(sessions) = <<"A", "B", "B">>)
                => /\ statistics.average_score = 50
                   /\ statistics.correct_answers = 1
                   /\ statistics.weak_topics =
                         << [topic |-> "B", average_score |-> 30, attempts |-> 2] >>

\* The scores 9, 3, 3 were logged on the topics A, B, B, and an obligation was
\* marked completed afterwards.
C17_Witness ==
    /\ ScoresOf(records.learning_sessions) = <<9, 3, 3>>
    /\ TopicsOf(records.learning_sessions) = <<"A", "B", "B">>
    /\ lr_ret.op = "mark_review_completed"
    /\ records.review_schedule[1].completed

\* C18: after every add_qa_record call the weak-topic list contains exactly the
\* topics whose mean score over all their events is below 7 (sum of scores < 7 x
\* number of attempts), each once, with attempts equal to the topic's number of
\* events, and for any two entries the one with the lower mean comes first.
C18_WeakTopicsByAscendingMean ==
    LET sessions == records.learning_sessions
        weak == records.statistics.weak_topics
    IN sessions # <<>> =>
          /\ { weak[i].topic : i \in 1..Len(weak) } =
                { sessions[i].topic : i \in { j \in 1..Len(sessions) :
                      TopicSum(sessions, sessions[j].topic)
                         < 7 * TopicCount(sessions, sessions[j].topic) } }
          /\ \A i, j \in 1..Len(weak) : i # j => weak[i].topic # weak[j].topic
          /\ \A i \in 1..Len(weak) :
                weak[i].attempts = TopicCount(sessions, weak[i].topic)
          /\ \A i, j \in 1..Len(weak) :
                TopicSum(sessions, weak[i].topic) * TopicCount(sessions, weak[j].topic)
                   < TopicSum(sessions, weak[j].topic) * TopicCount(sessions, weak[i].topic)
                => i < j

(***************************************************************************)
(* The claims about the two pure functions, checked under SpecFn.          *)
(***************************************************************************)
\* A character sequence without its stop words: where a stop word starts, the
\* stop word is dropped.
RECURSIVE WithoutStopWords(_)
WithoutStopWords(chars) ==
    IF chars = <<>> THEN <<>>
    ELSE IF \E w \in stopwords : Len(w) <= Len(chars) /\ SubSeq(chars, 1, Len(w)) = w
         THEN LET w == CHOOSE w \in stopwords :
                           Len(w) <= Len(chars) /\ SubSeq(chars, 1, Len(w)) = w
              IN WithoutStopWords(SubSeq(chars, Len(w) + 1, Len(chars)))
         ELSE <<chars[1]>> \o WithoutStopWords(Tail(chars))

\* All contiguous windows of length 1, 2 and 3 over a character sequence.
Windows(chars) ==
    UNION { { SubSeq(chars, i, i + n - 1) : i \in 1..(Len(chars) - n + 1) } :
            n \in 1..3 }

\* The ideographic characters of a text without the stop words.
FilteredChars(text) == WithoutStopWords(SelectSeq(text, IsIdeograph))

\* C19: extract_keywords(text) is exactly the set of all contiguous windows of
\* length 1, 2 and 3 over the character sequence left after keeping only the
\* ideographic characters and dropping the stop words; with fewer than 3 filtered
\* characters it is all the shorter windows, and with none (a text made only of
\* stop-word characters) it is the empty set.
C19_WindowsOverFilteredChars ==
    kw_call.called =>
       /\ kw_call.keywords = Windows(FilteredChars(kw_call.text))
       /\ FilteredChars(kw_call.text) = <<>> => kw_call.keywords = {}

\* The Jaccard index of two sets as the fraction the model uses.
IsJaccard(similarity, A, B) ==
    /\ similarity.den > 0
    /\ similarity.num * Cardinality(A \cup B) = Cardinality(A \cap B) * similarity.den

\* C20: calculate_similarity is the Jaccard index |A n B| / |A u B|: the score lies
\* in [0, 1], score(A, B) equals score(B, A), score(A, A) is 1 for every non-empty
\* A, and the score is exactly 0 when A or B is empty, both empty included.
C20_JaccardSymmetricBounded ==
    sim_call.called =>
       LET A == sim_call.keywords1
           B == sim_call.keywords2
           score == sim_call.similarity
           swapped == calculate_similarity(B, A)
       IN /\ score.den > 0
          /\ 0 <= score.num /\ score.num <= score.den
          /\ (A # {} /\ B # {}) => IsJaccard(score, A, B)
          /\ score.num * swapped.den = swapped.num * score.den
          /\ (A = B /\ A # {}) => score.num = score.den
          /\ (A = {} \/ B = {}) => score.num = 0

\* The function was applied to two different overlapping sets of different sizes.
C20_Witness ==
    /\ sim_call.called
    /\ Cardinality(sim_call.keywords1) = 3
    /\ Cardinality(sim_call.keywords2) = 2
    /\ sim_call.similarity.num = 1
    /\ sim_call.similarity.den = 4

(***************************************************************************)
(* The claim about the mastery tier, checked under SpecMastery.            *)
(***************************************************************************)
\* The tier the claim gives a score.
TierOf(score) ==
    CASE score >= 9 -> "excellent"
      [] score >= 7 /\ score < 9 -> "good"
      [] score >= 5 /\ score < 7 -> "fair"
      [] score < 5 -> "poor"

\* C21: _calculate_mastery is total over all integer scores, scores below 0 and
\* above 10 included: excellent for score >= 9, good for 7 <= score < 9, fair for
\* 5 <= score < 7, poor for score < 5; and the mastery_level stored in every
\* learning session event is this function of the event's score.
C21_MasteryTierOfEveryScore ==
    /\ \A score \in MasteryScores :
          /\ calculate_mastery(score) \in {"excellent", "good", "fair", "poor"}
          /\ calculate_mastery(score) = TierOf(score)
    /\ \A i \in 1..Len(records.learning_sessions) :
          records.learning_sessions[i].mastery_level =
             TierOf(records.learning_sessions[i].score)

\* The log holds an event with a score below 0 and one with the score 9.
C21_Witness ==
    /\ lr_ret.op = "add_qa_record"
    /\ Len(records.learning_sessions) = 2
    /\ records.learning_sessions[1].score < 0
    /\ records.learning_sessions[1].mastery_level = "poor"
    /\ records.learning_sessions[2].score = 9
    /\ records.learning_sessions[2].mastery_level = "excellent"

(***************************************************************************)
(* The claim about loading, checked under SpecLoad.                        *)
(***************************************************************************)
\* The value has the members the class reads, of the types it reads them as.
StructurallyValid(class, value) ==
    /\ value.type = "object"
    /\ CASE class = "knowledge_base" -> <<"topics", "object">> \in value.members
         [] class = "records" ->
               { <<"learning_sessions", "array">>, <<"review_schedule", "array">>,
                 <<"statistics", "object">> } \subseteq value.members
         [] class = "state" ->
               /\ { <<"current_state", "string">>, <<"learning_in_progress", "boolean">>,
                    <<"active_topics", "array">>, <<"user_preference", "object">>,
                    <<"metadata", "object">> } \subseteq value.members
               /\ {"last_activity", "suppress_until"}
                     \subseteq { member[1] : member \in value.members }

\* The file is unreadable, or its text is not a document of the class.
Malformed(class, file) ==
    \/ file.kind \in {"denied", "directory", "bytes"}
    \/ /\ file.kind = "text"
       /\ \/ json_load(file.text) = None
          \/ ~StructurallyValid(class, json_load(file.text)[1])

\* C22: loading when the backing file is missing yields the empty first-use
\* document without an error, for the knowledge base, the learning records and the
\* coordination state; loading when the file is unreadable or structurally invalid
\* fails with an error surfaced to the caller, is never replaced by the default
\* document, and leaves the stored file unchanged.
C22_LoadDefaultsOnlyWhenMissing ==
    load_call.loaded =>
       /\ load_call.file.kind = "missing" =>
             /\ load_call.outcome.raised = "None"
             /\ load_call.outcome.value = default_document(load_call.class)
       /\ Malformed(load_call.class, load_call.file) =>
             /\ load_call.outcome.raised # "None"
             /\ ~load_call.outcome.defaulted
             /\ load_call.file_after = load_call.file

(***************************************************************************)
(* The claim about completing each obligation, checked under SpecLR.       *)
(***************************************************************************)
\* The obligations of a schedule that match a call and are not completed.
OpenMatchesOf(schedule, call) ==
    { i \in MatchesOf(schedule, call) : ~schedule[i].completed }

\* C23: for every obligation r with completed = false,
\* mark_review_completed(r.question_zh, r.review_date) lowers by exactly one the
\* number of uncompleted obligations with that question text and due date, the two
\* obligations a poor-tier event creates with the same due date included.
C23_EveryObligationCanBeCompleted ==
    [][ (IsMarkStep /\ OpenMatchesOf(records.review_schedule, lr_ret') # {}) =>
           Cardinality(OpenMatchesOf(records'.review_schedule, lr_ret')) =
              Cardinality(OpenMatchesOf(records.review_schedule, lr_ret')) - 1
      ]_vars

(***************************************************************************)
(* The claims about the coordination state's shape and about the two user  *)
(* overrides, checked under SpecCM.                                        *)
(***************************************************************************)
\* C24: in every reachable coordination state current_state is one of idle,
\* active_learning, reviewing, auto_teaching; learning_in_progress is true exactly
\* when current_state is active_learning; and whenever current_state is idle,
\* active_topics is empty.
C24_CoordinationStateIsConsistent ==
    /\ cm.current_state \in {STATE_IDLE, STATE_ACTIVE_LEARNING, STATE_REVIEWING,
                             STATE_AUTO_TEACHING}
    /\ cm.learning_in_progress <=> cm.current_state = STATE_ACTIVE_LEARNING
    /\ cm.current_state = STATE_IDLE => cm.active_topics = <<>>

\* The calls of the two overrides.
IsLearningOverrideCall ==
    cm_ret'.op \in {"pause_auto_learning", "resume_auto_learning"} /\ now' = now
IsReviewOverrideCall ==
    cm_ret'.op \in {"pause_auto_review", "resume_auto_review"} /\ now' = now

\* What can_anki_review and can_auto_teach would return on a state.
AnkiReviewResult(state) ==
    <<can_anki_review(state, now).allowed, can_anki_review(state, now).reason>>
AutoTeachResult(state) ==
    <<can_auto_teach(state, now).allowed, can_auto_teach(state, now).reason>>

\* C25: the two user overrides are independent.  pause_auto_learning and
\* resume_auto_learning, with or without a duration, never change the result of
\* can_anki_review; pause_auto_review and resume_auto_review never change the
\* result of can_auto_teach; resuming one override does not cancel a timed
\* suppression set by pausing the other.
C25_OverridesAreIndependent ==
    [][ /\ IsLearningOverrideCall => AnkiReviewResult(cm') = AnkiReviewResult(cm)
        /\ IsReviewOverrideCall => AutoTeachResult(cm') = AutoTeachResult(cm)
        /\ ( /\ cm_ret'.op = "resume_auto_learning" /\ now' = now
             /\ last_pause.who = "review" /\ last_pause.timed )
           => cm'.suppress_until = cm.suppress_until
        /\ ( /\ cm_ret'.op = "resume_auto_review" /\ now' = now
             /\ last_pause.who = "learning" /\ last_pause.timed )
           => cm'.suppress_until = cm.suppress_until
      ]_vars

(***************************************************************************)
(* The claim about the stored document of a single instance, checked under *)
(* SpecOne.                                                                *)
(***************************************************************************)
\* C26: for a single instance with successful saves, once a first write has
\* happened the persisted document equals the in-memory document after every
\* completed public operation (add_question with any outcome, add_qa_record,
\* mark_review_completed and every CoordinationManager operation), so that a fresh
\* instance constructed on the same file holds an identical document.
C26_PersistedEqualsInMemory ==
    /\ kb_file # None => load_kb(kb_file) = knowledge_base
    /\ records_file # None => load_records(records_file) = records
    /\ cm_file # None => load_state(cm_file) = cm

\* check_auto_timeout has just ended a session that timed out, after an earlier
\* write, and the state it left is the one in the file.
C26_Witness ==
    /\ cm_ret.op = "check_auto_timeout"
    /\ cm_ret.allowed
    /\ now > 0
    /\ cm.last_activity = Some(now)
    /\ ~cm.learning_in_progress
    /\ cm_file = Some(cm)

(***************************************************************************)
(* The claim about topics without questions, checked under SpecKB.         *)
(***************************************************************************)
\* C27: after any sequence of add_question calls from an empty knowledge base,
\* every topic present in the knowledge base holds at least one question record,
\* although add_question creates the topic entry before the duplicate checks.
C27_NoTopicWithoutQuestion ==
    \A topic_id \in DOMAIN knowledge_base.topics :
       Len(knowledge_base.topics[topic_id].questions) >= 1

\* The last call created its topic, with a question that has a similar question
\* in another topic and was asked without force.
C27_Witness ==
    /\ ret.status = "ADDED"
    /\ ~ret.force
    /\ Len(QuestionsOf(knowledge_base, ret.topic)) = 1
    /\ \E other \in TopicNames \ {ret.topic} :
          \E i \in 1..Len(QuestionsOf(knowledge_base, other)) :
             AtLeastSixTenths(Jaccard(ret.question_zh,
                                      QuestionsOf(knowledge_base, other)[i].question_zh))

=============================================================================
